---- MODULE Spec2Model ----
(***************************************************************************)
(* Model of the `validity` crate (src/lib.rs): the wrapper Valid<T>, the   *)
(* trait Validate with its provided methods validate_with and validate,    *)
(* and the documented payload type PhoneNumber(String) with its two        *)
(* documented implementations of Validate (Context = () and                *)
(* Context = Database).                                                    *)
(*                                                                         *)
(* A client program owns one plain PhoneNumber binding and two Valid       *)
(* bindings and applies the public operations of the crate to them in any  *)
(* order.  Rust values are encoded as follows:                             *)
(*   String            a sequence of one-character strings                 *)
(*   PhoneNumber(s)    the 1-tuple <<s>>          (self.0 is self[1])      *)
(*   Valid(t)          the 1-tuple <<t>>          (self.0 is self[1])      *)
(*   Option            None is {}, Some(x) is {x}                          *)
(*   Result            [ok |-> {x}, err |-> {}] or [ok |-> {}, err |-> {e}]*)
(*   ()                the string "()"                                     *)
(* A moved-from or not yet initialised binding holds None.                 *)
(***************************************************************************)
EXTENDS Integers, Sequences, FiniteSets, TLC

VARIABLES
    testMock,   \* is the cargo feature "test-mock" enabled in this build
    ContextTy,  \* <PhoneNumber as Validate>::Context of the impl in scope
    cand,       \* plain (unvalidated) PhoneNumber bindings of the caller
    wrap,       \* Valid<PhoneNumber> bindings of the caller
    proof,      \* history: the is_valid calls a wrapper's construction made
    unwrapped,  \* history: the wrapper a plain value was taken out of
    last        \* the operation performed last, its inputs and its result

vars == <<testMock, ContextTy, cand, wrap, proof, unwrapped, last>>

----------------------------------------------------------------------------
(* Bounds and program constants *)

\* longest candidate string the caller builds
MaxLen == 12

\* the length the documented predicate compares with
PhoneLen == 11

CandVars == {"number"}
WrapVars == {"a", "b"}

----------------------------------------------------------------------------
(* Encoding of the Rust values *)

None == {}
Some(x) == {x}
Unwrap(o) == CHOOSE x \in o : TRUE

Ok(x) == [ok |-> {x}, err |-> {}]
Err(e) == [ok |-> {}, err |-> {e}]
IsOk(r) == r.ok # {}
IsErr(r) == r.err # {}

unit == "()"
Database == "Database"

Digits == <<"0", "1", "2", "3", "4", "5", "6", "7", "8", "9">>

\* the characters candidate strings are made of, in code-point order
Chars == Digits \o <<"a">>

\* the code point of a character (ASCII)
CodeOf(c) ==
    LET i == CHOOSE k \in 1..Len(Chars) : Chars[k] = c
    IN  IF i <= 10 THEN 47 + i ELSE 97

PhoneNumber(s) == <<s>>

\* "01234567890"[..n], with the last character replaced by 'a' when bad
Str(n, bad) ==
    [i \in 1..n |-> IF bad /\ i = n THEN "a" ELSE Digits[((i - 1) % 10) + 1]]

Lens == {0} \cup ((PhoneLen - 1)..MaxLen)

Inputs == {Str(n, bad) : n \in Lens, bad \in BOOLEAN}

----------------------------------------------------------------------------
(* The documented implementations of Validate for PhoneNumber *)

is_digit(c) == c \in {Digits[i] : i \in 1..Len(Digits)}

check_phone_exists(db, phone) == TRUE

\* impl Validate for PhoneNumber { type Context<'a> = (); ... }
is_valid_unit(self, ctx) ==
    IF Len(self[1]) = PhoneLen THEN Err("WrongLength")
    ELSE IF \E i \in 1..Len(self[1]) : ~is_digit(self[1][i]) THEN Err("NonDigit")
    ELSE Ok(unit)

\* impl Validate for PhoneNumber { type Context<'a> = Database; ... }
is_valid_db(self, db) ==
    IF Len(self[1]) = PhoneLen THEN Err("WrongLength")
    ELSE IF \E i \in 1..Len(self[1]) : ~is_digit(self[1][i]) THEN Err("NonDigit")
    ELSE IF ~check_phone_exists(db, self) THEN Err("NotInDatabase")
    ELSE Ok(unit)

\* Validate::is_valid, dispatched to the one impl in scope
is_valid(self, ctx) ==
    IF ContextTy = unit THEN is_valid_unit(self, ctx) ELSE is_valid_db(self, ctx)

----------------------------------------------------------------------------
(* Valid<T> and the provided methods of Validate.  An operation that may   *)
(* run the predicate returns its value together with the is_valid calls it *)
(* made, in order.                                                         *)

Valid(t) == <<t>>

Call(self, ctx, res) == [self |-> self, ctx |-> ctx, res |-> res]

\* variant: the Err arm also wraps
validate_with_WrapsOnErr(self, ctx) ==
    LET r == is_valid(self, ctx)
    IN  [ret   |-> Ok(Valid(self)),
         calls |-> <<Call(self, ctx, r)>>]

\* variant: the value is normalised (its last character cut) before wrapping
validate_with_Normalises(self, ctx) ==
    LET r == is_valid(self, ctx)
        t == PhoneNumber(SubSeq(self[1], 1, Len(self[1]) - 1))
    IN  [ret   |-> IF IsOk(r) THEN Ok(Valid(t)) ELSE Err(Unwrap(r.err)),
         calls |-> <<Call(self, ctx, r)>>]

\* variant: the Err arm returns a fixed error instead of the predicate's
validate_with_ReplacesErr(self, ctx) ==
    LET r == is_valid(self, ctx)
    IN  [ret   |-> IF IsOk(r) THEN Ok(Valid(self)) ELSE Err("WrongLength"),
         calls |-> <<Call(self, ctx, r)>>]

\* variant: a failed predicate is tried a second time
validate_with_Retries(self, ctx) ==
    LET r  == is_valid(self, ctx)
        r2 == is_valid(self, ctx)
    IN  IF IsOk(r)
        THEN [ret |-> Ok(Valid(self)), calls |-> <<Call(self, ctx, r)>>]
        ELSE [ret   |-> IF IsOk(r2) THEN Ok(Valid(self)) ELSE Err(Unwrap(r2.err)),
              calls |-> <<Call(self, ctx, r), Call(self, ctx, r2)>>]

validate_with(self, ctx) ==
    LET r == is_valid(self, ctx)
    IN  [ret   |-> IF IsOk(r) THEN Ok(Valid(self)) ELSE Err(Unwrap(r.err)),
         calls |-> <<Call(self, ctx, r)>>]

\* variant: the convenience wraps without validating
validate_Unchecked(self) == [ret |-> Ok(Valid(self)), calls |-> <<>>]

validate(self) == validate_with(self, unit)

\* variant: a default payload is handed out instead of the stored one
into_inner_Default(self) == PhoneNumber(<<>>)

into_inner(self) == self[1]

deref(self) == self[1]

danger_new_unvalidated(t) == [ret |-> Valid(t), calls |-> <<>>]

----------------------------------------------------------------------------

(* Capabilities of the payload T.  The impls derived for Valid<T> are bounded *)
(* by the same capability of T; T is PhoneNumber(String) deriving them, so   *)
(* each is the one of its String field.                                      *)

Min(S) == CHOOSE i \in S : \A j \in S : i <= j

CmpInt(m, n) == IF m < n THEN "Less" ELSE IF m = n THEN "Equal" ELSE "Greater"

\* <str as Ord>::cmp : lexicographic on the code points, then on the length
str_cmp(s, t) ==
    LET common == 1..(IF Len(s) < Len(t) THEN Len(s) ELSE Len(t))
        diff   == {i \in common : s[i] # t[i]}
    IN  IF diff = {} THEN CmpInt(Len(s), Len(t))
        ELSE CmpInt(CodeOf(s[Min(diff)]), CodeOf(t[Min(diff)]))

\* <str as Hash>::hash : the bytes, then 0xff
str_hash(s, state) == state \o [i \in 1..Len(s) |-> CodeOf(s[i])] \o <<255>>

T_eq(p, q) == p[1] = q[1]
T_cmp(p, q) == str_cmp(p[1], q[1])
T_partial_cmp(p, q) == Some(str_cmp(p[1], q[1]))
T_hash(p, state) == str_hash(p[1], state)
T_clone(p) == PhoneNumber([i \in 1..Len(p[1]) |-> p[1][i]])
T_fmt(p) == <<"PhoneNumber(", "\"">> \o p[1] \o <<"\"", ")">>

\* #[derive(Debug, Clone, Copy, PartialEq, Eq, PartialOrd, Ord, Hash)]
Valid_eq(self, other) == T_eq(self[1], other[1])
\* variant: the operands are compared the wrong way round
Valid_cmp_Reversed(self, other) == T_cmp(other[1], self[1])

Valid_cmp(self, other) == T_cmp(self[1], other[1])
Valid_partial_cmp(self, other) == T_partial_cmp(self[1], other[1])
Valid_hash(self, state) == T_hash(self[1], state)
Valid_clone(self) == Valid(T_clone(self[1]))
Valid_fmt(self) == <<"Valid(">> \o T_fmt(self[1]) \o <<")">>

----------------------------------------------------------------------------
(* The client program *)

Op(op, src, dst, inp, rhs, ctx, origin, out) ==
    [op |-> op, src |-> src, dst |-> dst, inp |-> inp, rhs |-> rhs,
     ctx |-> ctx, origin |-> origin, out |-> out]

Init ==
    /\ testMock \in BOOLEAN
    /\ ContextTy \in {unit, Database}
    /\ cand = [c \in CandVars |-> None]
    /\ unwrapped = [c \in CandVars |-> None]
    /\ wrap = [x \in WrapVars |-> None]
    /\ proof = [x \in WrapVars |-> <<>>]
    /\ last = Op("init", "-", "-", None, None, unit, None, None)

\* let number = PhoneNumber(s.to_string());
New ==
    \E c \in CandVars, s \in Inputs :
        /\ cand[c] = None
        /\ cand' = [cand EXCEPT ![c] = Some(PhoneNumber(s))]
        /\ unwrapped' = [unwrapped EXCEPT ![c] = None]
        /\ last' = Op("new", "-", c, Some(s), None, unit, None,
                      Some(PhoneNumber(s)))
        /\ UNCHANGED <<testMock, ContextTy, wrap, proof>>

\* the effect on the bindings of `let x = c.validate...(..)` returning out
Construct(c, x, out) ==
    /\ cand' = [cand EXCEPT ![c] = None]
    /\ unwrapped' = [unwrapped EXCEPT ![c] = None]
    /\ wrap' = [wrap EXCEPT ![x] = out.ret.ok]
    /\ proof' = [proof EXCEPT ![x] = IF IsOk(out.ret) THEN out.calls ELSE <<>>]
    /\ UNCHANGED <<testMock, ContextTy>>

\* let x = c.validate_with(ctx);   ctx : Self::Context<'_>
ValidateWith ==
    \E c \in CandVars, x \in WrapVars, ctx \in {ContextTy} :
        /\ cand[c] # None
        /\ wrap[x] = None
        /\ LET self == Unwrap(cand[c])
               out  == validate_with(self, ctx)
           IN  /\ Construct(c, x, out)
               /\ last' = Op("validate_with", c, x, Some(self), None, ctx,
                             unwrapped[c], out)

\* let x = c.validate();   where Self: for<'a> Validate<Context<'a> = ()>
Validate ==
    \E c \in CandVars, x \in WrapVars :
        /\ ContextTy = unit
        /\ cand[c] # None
        /\ wrap[x] = None
        /\ LET self == Unwrap(cand[c])
               out  == validate(self)
           IN  /\ Construct(c, x, out)
               /\ last' = Op("validate", c, x, Some(self), None, unit,
                             unwrapped[c], out)

\* variant: the cfg attribute is missing
DangerNew_NoCfg ==
    \E c \in CandVars, x \in WrapVars :
        /\ cand[c] # None
        /\ wrap[x] = None
        /\ LET t   == Unwrap(cand[c])
               out == danger_new_unvalidated(t)
           IN  /\ cand' = [cand EXCEPT ![c] = None]
               /\ unwrapped' = [unwrapped EXCEPT ![c] = None]
               /\ wrap' = [wrap EXCEPT ![x] = Some(out.ret)]
               /\ proof' = [proof EXCEPT ![x] = out.calls]
               /\ last' = Op("danger_new_unvalidated", c, x, Some(t), None,
                             unit, None, out)
        /\ UNCHANGED <<testMock, ContextTy>>

\* let x = Valid::danger_new_unvalidated(c);   #[cfg(feature = "test-mock")]
DangerNew ==
    \E c \in CandVars, x \in WrapVars :
        /\ testMock
        /\ cand[c] # None
        /\ wrap[x] = None
        /\ LET t   == Unwrap(cand[c])
               out == danger_new_unvalidated(t)
           IN  /\ cand' = [cand EXCEPT ![c] = None]
               /\ unwrapped' = [unwrapped EXCEPT ![c] = None]
               /\ wrap' = [wrap EXCEPT ![x] = Some(out.ret)]
               /\ proof' = [proof EXCEPT ![x] = out.calls]
               /\ last' = Op("danger_new_unvalidated", c, x, Some(t), None,
                             unit, None, out)
        /\ UNCHANGED <<testMock, ContextTy>>

\* let c = x.into_inner();
IntoInner ==
    \E x \in WrapVars, c \in CandVars :
        /\ wrap[x] # None
        /\ cand[c] = None
        /\ LET self == Unwrap(wrap[x])
           IN  /\ cand' = [cand EXCEPT ![c] = Some(into_inner(self))]
               /\ unwrapped' = [unwrapped EXCEPT ![c] = Some(self)]
               /\ last' = Op("into_inner", x, c, Some(self), None, unit, None,
                             Some(into_inner(self)))
        /\ wrap' = [wrap EXCEPT ![x] = None]
        /\ proof' = [proof EXCEPT ![x] = <<>>]
        /\ UNCHANGED <<testMock, ContextTy>>

\* a read of one wrapper through &self: only the result is new
Read(op, x, out) ==
    /\ last' = Op(op, x, "-", wrap[x], None, unit, None, Some(out))
    /\ UNCHANGED <<testMock, ContextTy, cand, unwrapped, wrap, proof>>

\* a read of two wrappers through &self and &other
Read2(op, x, y, out) ==
    /\ last' = Op(op, x, y, wrap[x], wrap[y], unit, None, Some(out))
    /\ UNCHANGED <<testMock, ContextTy, cand, unwrapped, wrap, proof>>

\* variant: the wrapper hands out &mut T and the caller writes through it
Deref_Mut ==
    \E x \in WrapVars, s \in Inputs :
        /\ wrap[x] # None
        /\ wrap' = [wrap EXCEPT ![x] = Some(Valid(PhoneNumber(s)))]
        /\ last' = Op("deref", x, "-", wrap[x], None, unit, None,
                      Some(deref(Unwrap(wrap[x]))))
        /\ UNCHANGED <<testMock, ContextTy, cand, unwrapped, proof>>

\* let r: &PhoneNumber = &*x;
Deref ==
    \E x \in WrapVars :
        /\ wrap[x] # None
        /\ Read("deref", x, deref(Unwrap(wrap[x])))

\* format!("{:?}", x)
Fmt ==
    \E x \in WrapVars :
        /\ wrap[x] # None
        /\ Read("fmt", x, Valid_fmt(Unwrap(wrap[x])))

\* x.hash(&mut hasher) on a fresh hasher
Hash ==
    \E x \in WrapVars :
        /\ wrap[x] # None
        /\ Read("hash", x, Valid_hash(Unwrap(wrap[x]), <<>>))

\* x == y
Eq ==
    \E x \in WrapVars, y \in WrapVars :
        /\ wrap[x] # None /\ wrap[y] # None
        /\ Read2("eq", x, y, Valid_eq(Unwrap(wrap[x]), Unwrap(wrap[y])))

\* x.cmp(&y)
Cmp ==
    \E x \in WrapVars, y \in WrapVars :
        /\ wrap[x] # None /\ wrap[y] # None
        /\ Read2("cmp", x, y, Valid_cmp(Unwrap(wrap[x]), Unwrap(wrap[y])))

\* x.partial_cmp(&y)
PartialCmp ==
    \E x \in WrapVars, y \in WrapVars :
        /\ wrap[x] # None /\ wrap[y] # None
        /\ Read2("partial_cmp", x, y,
                 Valid_partial_cmp(Unwrap(wrap[x]), Unwrap(wrap[y])))

\* let y = x.clone();
Clone ==
    \E x \in WrapVars, y \in WrapVars :
        /\ wrap[x] # None
        /\ wrap[y] = None
        /\ wrap' = [wrap EXCEPT ![y] = Some(Valid_clone(Unwrap(wrap[x])))]
        /\ proof' = [proof EXCEPT ![y] = proof[x]]
        /\ last' = Op("clone", x, y, wrap[x], None, unit, None,
                      Some(Valid_clone(Unwrap(wrap[x]))))
        /\ UNCHANGED <<testMock, ContextTy, cand, unwrapped>>

\* a plain value goes out of scope
DropCand ==
    \E c \in CandVars :
        /\ cand[c] # None
        /\ cand' = [cand EXCEPT ![c] = None]
        /\ unwrapped' = [unwrapped EXCEPT ![c] = None]
        /\ last' = Op("drop", c, "-", cand[c], None, unit, None, None)
        /\ UNCHANGED <<testMock, ContextTy, wrap, proof>>

\* a wrapper goes out of scope
DropValid ==
    \E x \in WrapVars :
        /\ wrap[x] # None
        /\ wrap' = [wrap EXCEPT ![x] = None]
        /\ proof' = [proof EXCEPT ![x] = <<>>]
        /\ last' = Op("drop_valid", x, "-", wrap[x], None, unit, None, None)
        /\ UNCHANGED <<testMock, ContextTy, cand, unwrapped>>

Next ==
    \/ New
    \/ ValidateWith
    \/ Validate
    \/ DangerNew
    \/ IntoInner
    \/ Deref
    \/ Fmt
    \/ Hash
    \/ Eq
    \/ Cmp
    \/ PartialCmp
    \/ Clone
    \/ DropCand
    \/ DropValid

Spec == Init /\ [][Next]_vars

----------------------------------------------------------------------------
(* Properties *)

Live(x) == wrap[x] # None

ValidateOps == {"validate_with", "validate"}

ReadOps == {"deref", "fmt", "hash", "eq", "cmp", "partial_cmp", "clone"}

\* the predicate's result on the input of the last operation
LastPredicate == is_valid(Unwrap(last.inp), last.ctx)

\* the construction of the wrapper in x ran is_valid on its payload and got Ok
Proved(x) ==
    \E i \in DOMAIN proof[x] :
        /\ proof[x][i].self = into_inner(Unwrap(wrap[x]))
        /\ IsOk(proof[x][i].res)
        /\ proof[x][i].res = is_valid(proof[x][i].self, proof[x][i].ctx)

C1_AllProved == ~testMock => \A x \in WrapVars : Live(x) => Proved(x)

C1_FailureLeavesNone ==
    (/\ ~testMock
     /\ last'.op \in ValidateOps
     /\ IsErr(is_valid(Unwrap(last'.inp), last'.ctx)))
    => wrap' = wrap

\* C1: with test-mock disabled, every live wrapper holds a payload on which
\* is_valid returned Ok when the wrapper (or the wrapper it was copied from)
\* was constructed, and an attempt whose predicate failed leaves the set of
\* wrappers as it was.
C1_ValidImpliesPredicateOk == [](C1_AllProved) /\ [][C1_FailureLeavesNone]_vars

\* a failed attempt was just made while a wrapper is alive, feature disabled
C1_Witness ==
    /\ ~testMock
    /\ last.op = "validate_with"
    /\ IsErr(last.out.ret)
    /\ \E x \in WrapVars : Live(x)

\* C2: if is_valid(&v, c) is Ok then v.validate_with(c) is Ok(w), w.into_inner()
\* is v, and the caller's binding holds that w.
C2_ConstructionSoundness ==
    (last.op = "validate_with" /\ IsOk(LastPredicate))
    => /\ IsOk(last.out.ret)
       /\ into_inner(Unwrap(last.out.ret.ok)) = Unwrap(last.inp)
       /\ wrap[last.dst] = last.out.ret.ok

\* a non-empty payload was validated successfully
C2_Witness ==
    /\ last.op = "validate_with"
    /\ IsOk(LastPredicate)
    /\ Len(Unwrap(last.inp)[1]) > 0

\* C3: if is_valid(&v, c) is Err(e) then v.validate_with(c) returns Err(e)
\* with that same e, and the step produces no wrapper.
C3_ConstructionRejection ==
    [][(last'.op = "validate_with"
        /\ IsErr(is_valid(Unwrap(last'.inp), last'.ctx)))
       => /\ last'.out.ret = Err(Unwrap(is_valid(Unwrap(last'.inp), last'.ctx).err))
          /\ wrap' = wrap]_vars

\* validate_with returned an error other than the one checked first
C3_Witness ==
    /\ last.op = "validate_with"
    /\ last.out.ret = Err("NonDigit")

\* C4: for the impl whose Context is (), v.validate() gives what
\* v.validate_with(()) gives: the same Ok wrapper or the same Err value, after
\* the same predicate calls, leaving the same wrapper in the caller's binding.
C4_DefaultContextEquivalence ==
    last.op = "validate"
    => /\ last.out = validate_with(Unwrap(last.inp), unit)
       /\ wrap[last.dst] = validate_with(Unwrap(last.inp), unit).ret.ok

\* validate() has rejected a candidate
C4_Witness ==
    /\ last.op = "validate"
    /\ IsErr(last.out.ret)

\* C5: no operation changes the payload of a wrapper that stays alive, and the
\* operations taking &self (deref, Debug, Hash, PartialEq, Ord, PartialOrd,
\* Clone) leave the wrapper they read alive and as it was; a wrapper built by
\* validate_with / validate holds the candidate as it was before the predicate
\* ran on it.
C5_PayloadImmutable ==
    [][/\ \A x \in WrapVars : (Live(x) /\ wrap'[x] # None) => wrap'[x] = wrap[x]
       /\ last'.op \in ReadOps => (Live(last'.src) /\ wrap'[last'.src] = wrap[last'.src])
       /\ (last'.op \in ValidateOps /\ wrap'[last'.dst] # None)
          => wrap'[last'.dst] = Some(Valid(Unwrap(cand[last'.src])))
      ]_vars

\* a wrapper was read through deref
C5_Witness ==
    /\ last.op = "deref"
    /\ Live(last.src)
    /\ Len(Unwrap(wrap[last.src])[1][1]) > 0

\* C6: *w equals w.into_inner(); and validating the value taken out of a
\* wrapper, with a context under which the predicate succeeds, gives a
\* wrapper equal to the one it was taken out of.
C6_TransparencyRoundTrip ==
    /\ last.op = "deref" => last.out = Some(into_inner(Unwrap(last.inp)))
    /\ last.op = "into_inner" => last.out = Some(deref(Unwrap(last.inp)))
    /\ (last.op = "validate_with" /\ last.origin # None /\ IsOk(LastPredicate))
       => /\ IsOk(last.out.ret)
          /\ Valid_eq(Unwrap(last.out.ret.ok), Unwrap(last.origin))

\* a value taken out of a wrapper was validated again, successfully
C6_Witness ==
    /\ last.op = "validate_with"
    /\ last.origin # None
    /\ IsOk(last.out.ret)

\* C7: danger_new_unvalidated exists only with test-mock enabled, returns a
\* wrapper holding t for every t without calling is_valid; with the feature
\* disabled every live wrapper comes from a construction that ran is_valid.
C7_EscapeHatch ==
    /\ last.op = "danger_new_unvalidated"
       => /\ testMock
          /\ last.out.ret = Valid(Unwrap(last.inp))
          /\ last.out.calls = <<>>
          /\ wrap[last.dst] = Some(Valid(Unwrap(last.inp)))
    /\ ~testMock => \A x \in WrapVars : Live(x) => proof[x] # <<>>

\* a payload the predicate rejects was wrapped through the escape hatch
C7_Witness ==
    /\ last.op = "danger_new_unvalidated"
    /\ IsErr(LastPredicate)
    /\ Live(last.dst)

\* C8: ==, cmp, partial_cmp and hash of wrappers give what the same operation
\* gives on their payloads, and the clone of a wrapper holds the clone of its
\* payload.
C8_DerivedForwarding ==
    LET a == deref(Unwrap(last.inp))
        b == deref(Unwrap(last.rhs))
    IN  /\ last.op = "eq" => last.out = Some(T_eq(a, b))
        /\ last.op = "cmp" => last.out = Some(T_cmp(a, b))
        /\ last.op = "partial_cmp" => last.out = Some(T_partial_cmp(a, b))
        /\ last.op = "hash" => last.out = Some(T_hash(a, <<>>))
        /\ last.op = "clone" => /\ deref(Unwrap(last.out)) = T_clone(a)
                                /\ wrap[last.dst] = last.out

\* two wrappers with different payloads were compared
C8_Witness ==
    /\ last.op = "cmp"
    /\ last.out = Some("Less")

\* what the documented scenario expects of PhoneNumber(s).validate()
ExpectedPhoneResult(s) ==
    IF Len(s) # 11 THEN Err("WrongLength")
    ELSE IF \E i \in 1..Len(s) : ~is_digit(s[i]) THEN Err("NonDigit")
    ELSE Ok(Valid(PhoneNumber(s)))

\* C9: PhoneNumber(s).validate() fails with WrongLength exactly when the
\* length of s is not 11, with NonDigit when the length is 11 and some
\* character is not a decimal digit, and otherwise succeeds with a wrapper
\* that unwraps to s.
C9_PhoneNumberScenario ==
    last.op = "validate" => last.out.ret = ExpectedPhoneResult(Unwrap(last.inp)[1])

\* C10: a validate_with / validate step consumes the candidate, calls is_valid
\* exactly once with the supplied context, and ends either with the candidate
\* wrapped (predicate Ok) or with the predicate's error and no new wrapper;
\* a wrapper only ever appears from a live candidate's successful attempt,
\* from a copy or from the escape hatch; into_inner consumes the wrapper and
\* leaves a plain value.
C10_Step ==
    LET c   == last'.src
        x   == last'.dst
        v   == Unwrap(last'.inp)
        out == last'.out
    IN  /\ last'.op \in ValidateOps
           => /\ cand[c] = Some(v) /\ cand'[c] = None
              /\ out.calls = <<Call(v, last'.ctx, is_valid(v, last'.ctx))>>
              /\ \/ /\ IsOk(out.calls[1].res)
                    /\ IsOk(out.ret)
                    /\ wrap' = [wrap EXCEPT ![x] = Some(Valid(v))]
                 \/ /\ IsErr(out.calls[1].res)
                    /\ IsErr(out.ret)
                    /\ wrap' = wrap
        /\ \A y \in WrapVars :
              (~Live(y) /\ wrap'[y] # None)
              => last'.op \in ValidateOps \cup {"clone", "danger_new_unvalidated"}
        /\ last'.op = "into_inner"
           => /\ wrap'[c] = None /\ proof'[c] = <<>>
              /\ cand'[x] = Some(into_inner(v))

C10_ConstructionStateMachine == [][C10_Step]_vars

\* an attempt ended in Error: the candidate is gone and no wrapper stands for it
C10_Witness ==
    /\ last.op \in ValidateOps
    /\ IsErr(last.out.ret)
    /\ cand[last.src] = None
    /\ ~Live(last.dst)
====
